---- MODULE Spec2Model ----
(***************************************************************************)
(* Model of the dependency graph walker (Graph.walk): pre-traversal        *)
(* filtering by exclusion and targeting, the parallel walk of the graph in *)
(* dependency order, and the in-place walk of a dynamically expanded       *)
(* sub-graph.                                                              *)
(*                                                                         *)
(* An edge <<u, v>> means "u depends on v" (dag.BasicEdge(source, target)) *)
(***************************************************************************)
EXTENDS Naturals, FiniteSets, Sequences, TLC

\* ------------------------------------------------------------------ bounds
\* largest number of top-level target addresses (walker.TargetAddrs())
MaxTargets == 2
\* largest number of excluded addresses (walker.ExcludedAddrs())
MaxExcluded == 1
\* largest number of direct targets carried by the expanding vertex
MaxDirect == 1
\* largest number of top-level target addresses in the walks checked for
\* progress
MaxLiveTargets == 0
\* largest number of edges of the graph ResourceGraph is called on
MaxRGEdges == 3
\* largest number of state-storage calls made on one local backend
MaxCalls == 2

\* ---------------------------------------------------------------- vertices
\* The vertices of the top-level graph and of the dynamic sub-graph.
\*   a    : config-resource node r1; executable, dynamically expandable,
\*          targetable (GraphNodeConfigResource, GraphNodeDynamicExpandable)
\*   b    : resource-instance node r2[0]; implements both
\*          GraphNodeResourceInstance and GraphNodeConfigResource
\*   c    : provider node; no targetable address
\*   x1,x2: resource-instance nodes r1[0], r1[1] produced by a's expansion
\*   root : the singleton rootNode of the sub-graph; not executable
Outer == {"a", "b", "c"}
SubV == {"x1", "x2", "root"}
V == Outer \cup SubV

None == "none"
\* the addresses the host passes as targets, excluded addresses and direct
\* targets
Addrs == {"r1", "r1[0]", "r2[0]"}

ResourceInstanceAddr(v) ==
    CASE v = "b" -> "r2[0]"
      [] v = "x1" -> "r1[0]"
      [] v = "x2" -> "r1[1]"
      [] OTHER -> None

ResourceAddr(v) ==
    CASE v = "a" -> "r1"
      [] v = "b" -> "r2"
      [] v = "x1" -> "r1"
      [] v = "x2" -> "r1"
      [] OTHER -> None

GraphNodeExecutable(v) == v # "root"
GraphNodeDynamicExpandable(v) == v = "a"
GraphNodeTargetable(v) == v = "a"
GraphNodeProvider(v) == v = "c"
GraphNodeOverridable(v) == v \in {"b", "x1", "x2"}
graphNodeEvalContextScope(v) == v = "a"
GraphNodeModuleInstance(v) == v = "b"
GraphNodePartialExpandedModule(v) == v = "x1"
\* the vertices with a SetExcluded method (line 231)
ExclusionAware(v) == v \in {"a", "b", "x1", "x2"}

\* Path() of a vertex that belongs to a scope
Path(v) ==
    CASE v = "a" -> "scope.a"
      [] v = "b" -> "module.m"
      [] v = "x1" -> "module.m[*]"
      [] OTHER -> None

\* the module (addrs.Module) of the configuration of a provider
ProviderModule(v) == IF v = "c" THEN <<"m">> ELSE <<>>

\* the scope walkFn enters for a vertex, None when it enters none
\* (lines 197-221)
Scope(v) ==
    IF graphNodeEvalContextScope(v) THEN Path(v)
    ELSE IF GraphNodeModuleInstance(v) THEN "evalContextModuleInstance"
    ELSE IF GraphNodePartialExpandedModule(v) THEN "evalContextPartialExpandedModule"
    ELSE None

\* addrs.Targetable.TargetContains: an address contains itself, and a config
\* resource contains each of its instances.
TargetContains(t, x) ==
    \/ t = x
    \/ t = "r1" /\ x \in {"r1[0]", "r1[1]"}
    \/ t = "r2" /\ x = "r2[0]"

\* ------------------------------------------------------------ dag package
\* DownEdges(v): the dependencies of v; UpEdges(v): its dependents.
DownEdges(g, v) == {w \in g.verts : <<v, w>> \in g.edges}
UpEdges(g, v) == {u \in g.verts : <<u, v>> \in g.edges}

RECURSIVE Reach(_, _, _)
Reach(g, S, n) ==
    LET T == S \cup UNION {DownEdges(g, v) : v \in S}
    IN IF n = 0 \/ T = S THEN S ELSE Reach(g, T, n - 1)

\* Ancestors(v): every vertex reached by walking down from v, v not included:
\* the direct and transitive dependencies of v.
Ancestors(g, v) == Reach(g, DownEdges(g, v), Cardinality(g.verts))

\* the labels of dag.Filter
Unset == "unset"
AllowedL == "Allowed"
ExplicitlyExcluded == "ExplicitlyExcluded"

Matches(f, v, label) == f[v] = label
Allowed(f, v) == f[v] = AllowedL
\* Include never overrides an exclusion; Exclude always sets the label.
Include(f, v) == IF f[v] = ExplicitlyExcluded THEN f ELSE [f EXCEPT ![v] = AllowedL]
Exclude(f, v) == [f EXCEPT ![v] = ExplicitlyExcluded]

\* ------------------------------------------------------------- graph.go
getTargetable(node) ==
    IF ResourceInstanceAddr(node) # None THEN ResourceInstanceAddr(node)
    ELSE IF ResourceAddr(node) # None THEN ResourceAddr(node)
    ELSE None

\* mutant: the loop over g.Ancestors(node) is missing
isExcluded_SelfOnly(g, node, excludedAddrs) ==
    LET contains(t) == \E e \in excludedAddrs : TargetContains(e, t)
    IN getTargetable(node) # None /\ contains(getTargetable(node))

\* mutant: the loop runs over the dependents of node, not its dependencies
isExcluded_Dependents(g, node, excludedAddrs) ==
    LET contains(t) == \E e \in excludedAddrs : TargetContains(e, t)
    IN \/ getTargetable(node) # None /\ contains(getTargetable(node))
       \/ \E dep \in {u \in g.verts : node \in Ancestors(g, u)} :
              getTargetable(dep) # None /\ contains(getTargetable(dep))

isExcluded(g, node, excludedAddrs) ==
    LET contains(t) == \E e \in excludedAddrs : TargetContains(e, t)
    IN \/ getTargetable(node) # None /\ contains(getTargetable(node))
       \/ \E dep \in Ancestors(g, node) :
              getTargetable(dep) # None /\ contains(getTargetable(dep))

\* selectTargetedNodes: the vertices whose address a target contains, plus
\* their transitive dependencies.
nodeIsTarget(v, targets) ==
    getTargetable(v) # None /\ \E t \in targets : TargetContains(t, getTargetable(v))

selectTargetedNodes(g, targets) ==
    LET direct == {v \in g.verts : nodeIsTarget(v, targets)}
    IN direct \cup UNION {Ancestors(g, v) : v \in direct}

\* mutant: the exclusion pass runs only for more than one excluded address
ExcludePass_SizeGT1(g, f, excludeAddrs) ==
    IF Cardinality(excludeAddrs) > 1
    THEN [v \in V |->
            IF v \in g.verts /\ ~Matches(f, v, ExplicitlyExcluded)
                 /\ isExcluded(g, v, excludeAddrs)
            THEN Exclude(f, v)[v] ELSE f[v]]
    ELSE f

\* walk, lines 85-101: the exclusion pass over g.Vertices()
ExcludePass(g, f, excludeAddrs) ==
    IF Cardinality(excludeAddrs) > 0
    THEN [v \in V |->
            IF v \in g.verts /\ ~Matches(f, v, ExplicitlyExcluded)
                 /\ isExcluded(g, v, excludeAddrs)
            THEN Exclude(f, v)[v] ELSE f[v]]
    ELSE f

\* mutant: without targets, the guard of Include is inverted
TargetPass_GuardInverted(g, f, tgts) ==
    IF Cardinality(tgts) = 0
    THEN [v \in V |->
            IF v \in g.verts /\ Matches(f, v, ExplicitlyExcluded)
            THEN Include(f, v)[v] ELSE f[v]]
    ELSE LET sel == selectTargetedNodes(g, tgts)
             f1 == [v \in V |-> IF v \in sel THEN Include(f, v)[v] ELSE f[v]]
         IN [v \in V |->
               IF v \in g.verts /\ ~Matches(f1, v, AllowedL)
               THEN Exclude(f1, v)[v] ELSE f1[v]]

\* mutant: a single target is treated as no targeting (len(targets) <= 1)
TargetPass_LenLE1(g, f, tgts) ==
    IF Cardinality(tgts) <= 1
    THEN [v \in V |->
            IF v \in g.verts /\ ~Matches(f, v, ExplicitlyExcluded)
            THEN Include(f, v)[v] ELSE f[v]]
    ELSE LET sel == selectTargetedNodes(g, tgts)
             f1 == [v \in V |-> IF v \in sel THEN Include(f, v)[v] ELSE f[v]]
         IN [v \in V |->
               IF v \in g.verts /\ ~Matches(f1, v, AllowedL)
               THEN Exclude(f1, v)[v] ELSE f1[v]]

\* mutant: the loop that excludes the vertices left un-Allowed is missing
TargetPass_NoExcludeRest(g, f, tgts) ==
    IF Cardinality(tgts) = 0
    THEN [v \in V |->
            IF v \in g.verts /\ ~Matches(f, v, ExplicitlyExcluded)
            THEN Include(f, v)[v] ELSE f[v]]
    ELSE LET sel == selectTargetedNodes(g, tgts)
         IN [v \in V |-> IF v \in sel THEN Include(f, v)[v] ELSE f[v]]

\* mutant: without targets no vertex is included
TargetPass_NoTargetsNoInclude(g, f, tgts) ==
    IF Cardinality(tgts) = 0
    THEN f
    ELSE LET sel == selectTargetedNodes(g, tgts)
             f1 == [v \in V |-> IF v \in sel THEN Include(f, v)[v] ELSE f[v]]
         IN [v \in V |->
               IF v \in g.verts /\ ~Matches(f1, v, AllowedL)
               THEN Exclude(f1, v)[v] ELSE f1[v]]

\* walk, lines 103-124: the inclusion pass
TargetPass(g, f, tgts) ==
    IF Cardinality(tgts) = 0
    THEN [v \in V |->
            IF v \in g.verts /\ ~Matches(f, v, ExplicitlyExcluded)
            THEN Include(f, v)[v] ELSE f[v]]
    ELSE LET sel == selectTargetedNodes(g, tgts)
             f1 == [v \in V |-> IF v \in sel THEN Include(f, v)[v] ELSE f[v]]
         IN [v \in V |->
               IF v \in g.verts /\ ~Matches(f1, v, AllowedL)
               THEN Exclude(f1, v)[v] ELSE f1[v]]

\* ------------------------------------------------------------------ state
VARIABLES
    edges,          \* the edges of the top-level graph (the receiver of Walk)
    dyn,            \* the sub-graph a's DynamicExpand returned, nil before
    excluded,       \* walker.ExcludedAddrs()
    targets,        \* the targets argument of each walk call
    filter,         \* ctx.Filter(): the label of every vertex
    phase,          \* the position of each walk call
    pc,             \* the position of each vertex's walkFn
    visits,         \* how many times walkFn was invoked on each vertex
    diags,          \* whether the diagnostics of each walk hold an error
    overrides,      \* ctx.Overrides()
    walkCtx,        \* the ctx argument of each walk call
    tracing,        \* whether the calls of each visit are recorded in log
    log,            \* the calls each visit made on the host, in order
    rg,             \* the state of a ResourceGraph call
    lb              \* the state of the local backend and its caller

walkVars == <<edges, dyn, excluded, targets, filter, phase, pc, visits, diags,
              overrides, walkCtx, tracing, log>>
vars == <<walkVars, rg, lb>>

Walks == {"top", "sub"}
\* the vertex whose walkFn makes the recursive walk call (line 296)
Caller == "a"
WalkOf(v) == IF v \in Outer THEN "top" ELSE "sub"

\* the graph each walk call is made on
G(w) == IF w = "top" THEN [verts |-> Outer, edges |-> edges]
        ELSE [verts |-> dyn.verts, edges |-> dyn.edges]

\* the state machine of a vertex during a walk
WAITING == "WAITING"
RUNNING == "RUNNING"
DONE == "DONE"
FAILED == "FAILED"
Status(v) == IF pc[v] = "wait" THEN WAITING
             ELSE IF pc[v] = "done" THEN DONE
             ELSE IF pc[v] = "panicked" THEN FAILED ELSE RUNNING

\* ------------------------------------------------------------ the host
\* walker.EvalContext() (line 38)
EvalContext == <<"ctx", "global">>
\* no evaluation context: the ctx of a walk that was not called
NoCtx == <<"ctx", None>>
\* walker.enterScope(scope): the evaluation context of the scope
enterScope(scope) == <<"ctx", scope>>

\* the evaluation context a visit works in (lines 197-221)
VertexCtx(v) ==
    IF Scope(v) # None THEN enterScope(Scope(v)) ELSE walkCtx[WalkOf(v)]

\* addrs.Module.UnkeyedInstanceShim: the instance of the module in which no
\* step has an instance key
NoKey == "nokey"
UnkeyedInstanceShim(m) == [i \in DOMAIN m |-> [name |-> m[i], key |-> NoKey]]

\* Overrides.Empty, Overrides.GetResourceOverride, Overrides.IsOverridden
NoOverrides == [resources |-> {}, modules |-> {}]
Empty(o) == o.resources = {} /\ o.modules = {}
GetResourceOverride(o, addr) == addr \in o.resources
IsOverridden(o, inst) == inst \in o.modules

\* the overrides of the host: none, one of resource r2[0], one of the
\* module of the provider, and one of a keyed instance of that module
OverrideSets ==
    { NoOverrides,
      [resources |-> {"r2[0]"}, modules |-> {}],
      [resources |-> {}, modules |-> {<<[name |-> "m", key |-> NoKey]>>}],
      [resources |-> {}, modules |-> {<<[name |-> "m", key |-> "k"]>>}] }

\* line 157
haveOverrides == ~Empty(overrides)

\* mutant: any provider is skipped when the host has overrides
SkipsProvider_AnyModule(v) == GraphNodeProvider(v) /\ haveOverrides

\* lines 175-188: the visit of a provider within an overridden module
\* returns at once
SkipsProvider(v) ==
    /\ GraphNodeProvider(v)
    /\ haveOverrides
    /\ IsOverridden(overrides, UnkeyedInstanceShim(ProviderModule(v)))

\* --------------------------------------------------- the log of a visit
Logged(v, evs) == IF tracing THEN [log EXCEPT ![v] = @ \o evs] ELSE log

\* lines 161-173
OverrideEvents(v) ==
    IF /\ GraphNodeOverridable(v)
       /\ haveOverrides
       /\ GetResourceOverride(overrides, ResourceInstanceAddr(v))
    THEN << <<"SetOverride">> >> ELSE <<>>

\* lines 197-221: walker.enterScope
EnterEvents(v) ==
    IF Scope(v) # None THEN << <<"enterScope", Scope(v)>> >> ELSE <<>>

\* mutant: the scope is not left
ExitEvents_None(v) == <<>>

\* lines 202, 210, 218: the deferred walker.exitScope
ExitEvents(v) ==
    IF Scope(v) # None THEN << <<"exitScope", Scope(v)>> >> ELSE <<>>

\* mutant: every vertex with a SetExcluded method is signalled
ReconcileEvents_Always(f, v) ==
    IF ExclusionAware(v) THEN << <<"SetExcluded", TRUE>> >> ELSE <<>>

\* lines 230-234
ReconcileEvents(f, v) ==
    IF ~Allowed(f, v) /\ ExclusionAware(v)
    THEN << <<"SetExcluded", TRUE>> >> ELSE <<>>

\* mutant: a panic is logged and then the visit completes
LogOutcome_Swallow(outcome) ==
    IF outcome = "panic" THEN << <<"panicked">>, <<"visit complete">> >>
    ELSE IF outcome = "error" THEN << <<"visit complete, with errors">> >>
    ELSE << <<"visit complete">> >>

\* lines 135-155: the deferred logging of the end of a visit
LogOutcome(outcome) ==
    IF outcome = "panic" THEN << <<"panicked">> >>
    ELSE IF outcome = "error" THEN << <<"visit complete, with errors">> >>
    ELSE << <<"visit complete">> >>

\* the deferred calls of a visit that has entered its scope, last deferred
\* first (lines 135-155 and 202, 210, 218)
RunDeferred(v, outcome) == ExitEvents(v) \o LogOutcome(outcome)

Outcome(err) == IF err THEN "error" ELSE "ok"

\* ------------------------------------------------------------------- Init
Acyclic(g) == \A v \in g.verts : v \notin Ancestors(g, v)

\* the top-level graphs: acyclic, and every vertex has a dependency or a
\* dependent (the graph is held together by its root)
Dags == {e \in SUBSET {p \in Outer \X Outer : p[1] # p[2]} :
            /\ Acyclic([verts |-> Outer, edges |-> e])
            /\ \A v \in Outer : \E p \in e : v \in {p[1], p[2]}}

NilGraph == [verts |-> {}, edges |-> {}]
\* the valid sub-graphs: rootNode depends on every other vertex
SubGraphs == {[verts |-> SubV,
               edges |-> {<<"root", "x1">>, <<"root", "x2">>} \cup e] :
                 e \in {{}, {<<"x1", "x2">>}, {<<"x2", "x1">>}}}

\* the invalid sub-graphs: one with a cycle, one with two roots, and one
\* whose single root is not rootNode
InvalidSubGraphs ==
    { [verts |-> SubV,
       edges |-> {<<"root", "x1">>, <<"root", "x2">>, <<"x1", "x2">>, <<"x2", "x1">>}],
      [verts |-> SubV, edges |-> {<<"root", "x2">>}],
      [verts |-> SubV, edges |-> {<<"x1", "root">>, <<"x1", "x2">>}] }

\* the sub-graphs DynamicExpand may return
Expansions == SubGraphs \cup InvalidSubGraphs

\* dag.AcyclicGraph.Root: the vertices no other vertex depends on
Roots(g) == {v \in g.verts : UpEdges(g, v) = {}}
\* dag.AcyclicGraph.Validate: no cycle and exactly one root
Validate(g) == Acyclic(g) /\ Cardinality(Roots(g)) = 1
\* the singleton root node value
rootNode == "root"

\* mutant: only the validation decides
ValidSubGraph_ValidateOnly(g) == Validate(g)

\* lines 257-275: the sub-graph passes validation and its root is rootNode
ValidSubGraph(g) == Validate(g) /\ Roots(g) = {rootNode}

UpTo(n) == {S \in SUBSET Addrs : Cardinality(S) <= n}

\* no ResourceGraph call and no local backend
RGIdle == [pc |-> "none"]
LBIdle == [pc |-> "none"]

Init ==
    /\ edges \in Dags
    /\ dyn = NilGraph
    /\ excluded \in UpTo(MaxExcluded)
    /\ \E t \in UpTo(MaxTargets) : targets = [w \in Walks |-> IF w = "top" THEN t ELSE {}]
    /\ filter = [v \in V |-> Unset]
    /\ phase = [w \in Walks |-> IF w = "top" THEN "called" ELSE "none"]
    /\ pc = [v \in V |-> "wait"]
    /\ visits = [v \in V |-> 0]
    /\ diags = [w \in Walks |-> FALSE]
    /\ overrides = NoOverrides
    /\ walkCtx = [w \in Walks |-> IF w = "top" THEN EvalContext ELSE NoCtx]
    /\ tracing = FALSE
    /\ log = [v \in V |-> <<>>]
    /\ rg = RGIdle
    /\ lb = LBIdle

\* ---------------------------------------------------------------- actions
\* walk, lines 85-101
WalkExclude(w) ==
    /\ phase[w] = "called"
    /\ filter' = ExcludePass(G(w), filter, excluded)
    /\ phase' = [phase EXCEPT ![w] = "excluded"]
    /\ UNCHANGED <<edges, dyn, excluded, targets, pc, visits, diags>>
    /\ UNCHANGED <<overrides, walkCtx, tracing, log, rg, lb>>

\* walk, lines 103-124, and the start of AcyclicGraph.Walk (line 314)
WalkTarget(w) ==
    /\ phase[w] = "excluded"
    /\ filter' = TargetPass(G(w), filter, targets[w])
    /\ phase' = [phase EXCEPT ![w] = "walking"]
    /\ UNCHANGED <<edges, dyn, excluded, targets, pc, visits, diags>>
    /\ UNCHANGED <<overrides, walkCtx, tracing, log, rg, lb>>

\* mutant: a vertex starts once its dependencies have started
DepsDone_Started(g, v) == \A d \in DownEdges(g, v) : pc[d] # "wait"

\* AcyclicGraph.Walk starts the action of a vertex once the actions of all
\* its dependencies have completed.
DepsDone(g, v) == \A d \in DownEdges(g, v) : pc[d] = "done"

\* mutant: only the vertices the filter does not exclude are walked
WalkedVertices_NotExcluded(w) == {v \in G(w).verts : filter[v] # ExplicitlyExcluded}

\* the vertices AcyclicGraph.Walk is run over (line 314): all of the graph,
\* whatever the filter says
WalkedVertices(w) == G(w).verts

\* walkFn is invoked on v (line 128) and goes up to the call of
\* walker.Execute: the override of an overridable vertex, the scope of the
\* vertex, the exclusion of a vertex the filter does not allow (lines
\* 133-234)
VisitStart(w, v) ==
    /\ phase[w] = "walking"
    /\ v \in WalkedVertices(w)
    /\ pc[v] = "wait"
    /\ DepsDone(G(w), v)
    /\ ~SkipsProvider(v)
    /\ pc' = [pc EXCEPT ![v] = "visit"]
    /\ visits' = [visits EXCEPT ![v] = @ + 1]
    /\ log' = Logged(v, << <<"starting visit">> >> \o OverrideEvents(v)
                        \o EnterEvents(v) \o ReconcileEvents(filter, v))
    /\ UNCHANGED <<edges, dyn, excluded, targets, filter, phase, diags>>
    /\ UNCHANGED <<overrides, walkCtx, tracing, rg, lb>>

\* walkFn is invoked on a provider within an overridden module: the visit
\* returns at line 186, with nothing deferred but the logging
SkipProvider(w, v) ==
    /\ phase[w] = "walking"
    /\ v \in WalkedVertices(w)
    /\ pc[v] = "wait"
    /\ DepsDone(G(w), v)
    /\ SkipsProvider(v)
    /\ pc' = [pc EXCEPT ![v] = "done"]
    /\ visits' = [visits EXCEPT ![v] = @ + 1]
    /\ log' = Logged(v, << <<"starting visit">> >> \o OverrideEvents(v)
                        \o << <<"skipping provider">> >> \o LogOutcome("ok"))
    /\ UNCHANGED <<edges, dyn, excluded, targets, filter, phase, diags>>
    /\ UNCHANGED <<overrides, walkCtx, tracing, rg, lb>>

\* mutant: the error of walker.Execute does not end the visit
AfterExecute_GoOn(v, err) ==
    IF ~GraphNodeDynamicExpandable(v) THEN "done" ELSE "executed"

\* where the visit of v goes after walker.Execute returned (lines 237-245)
AfterExecute(v, err) ==
    IF err \/ ~GraphNodeDynamicExpandable(v) THEN "done" ELSE "executed"

\* mutant: the diagnostics of the visit are dropped
AppendDiags_Drop(d, err) == d

\* diags.Append (lines 238, 249, 258, 269, 297): the diagnostics hold an
\* error once an error was appended
AppendDiags(d, err) == d \/ err

\* walkFn, lines 236-245: walker.Execute, and the return of a visit that has
\* an error or nothing to expand
Execute(v) ==
    /\ pc[v] = "visit"
    /\ \E err \in BOOLEAN :
         /\ err => GraphNodeExecutable(v)
         /\ diags' = [diags EXCEPT ![WalkOf(v)] = AppendDiags(@, err)]
         /\ pc' = [pc EXCEPT ![v] = AfterExecute(v, err)]
         /\ log' = Logged(v,
               (IF GraphNodeExecutable(v)
                THEN << <<"Execute", VertexCtx(v), Outcome(err)>> >> ELSE <<>>)
               \o (IF AfterExecute(v, err) = "done"
                   THEN RunDeferred(v, Outcome(err)) ELSE <<>>))
    /\ UNCHANGED <<edges, dyn, excluded, targets, filter, phase, visits>>
    /\ UNCHANGED <<overrides, walkCtx, tracing, rg, lb>>

\* mutant: the sub-graph of an excluded vertex is left as it is
InheritExcluded_Never(f, v, g) == f

\* the exclusion of the sub-graph g of an excluded vertex v (lines 281-285)
InheritExcluded(f, v, g) ==
    IF Matches(f, v, ExplicitlyExcluded)
    THEN [n \in V |-> IF n \in g.verts THEN Exclude(f, n)[n] ELSE f[n]]
    ELSE f

\* the targets of the recursive walk call (lines 292-295)
DirectTargets(v, tgts) == IF GraphNodeTargetable(v) THEN tgts ELSE {}

\* mutant: the sub-walk is given the context of the scope of the vertex
SubWalkCtx_Scoped(v) == VertexCtx(v)

\* the ctx argument of the recursive walk call (line 296): the ctx of the
\* walk the visit belongs to
SubWalkCtx(v) == walkCtx[WalkOf(v)]

\* mutant: the sub-walk is started without waiting for it
CallWalk_Async == "done"

\* where the visit is while g.walk runs (line 296): the call is synchronous,
\* the visit goes on only when the sub-walk has returned
CallWalk == "subwalk"

\* walkFn, lines 245-253 and 307-311: DynamicExpand fails or returns nil
ExpandNothing(v) ==
    /\ pc[v] = "executed"
    /\ GraphNodeDynamicExpandable(v)
    /\ \E err \in BOOLEAN :
         /\ diags' = [diags EXCEPT ![WalkOf(v)] = AppendDiags(@, err)]
         /\ log' = Logged(v, << <<"DynamicExpand", VertexCtx(v), Outcome(err)>> >>
                             \o RunDeferred(v, Outcome(err)))
    /\ pc' = [pc EXCEPT ![v] = "done"]
    /\ UNCHANGED <<edges, dyn, excluded, targets, filter, phase, visits>>
    /\ UNCHANGED <<overrides, walkCtx, tracing, rg, lb>>

\* walkFn, lines 245-275: DynamicExpand returns a sub-graph that fails the
\* validation or whose root is not rootNode; the visit returns an error
ExpandInvalid(v) ==
    /\ pc[v] = "executed"
    /\ GraphNodeDynamicExpandable(v)
    /\ \E g \in Expansions :
         /\ ~ValidSubGraph(g)
         /\ dyn' = g
    /\ diags' = [diags EXCEPT ![WalkOf(v)] = AppendDiags(@, TRUE)]
    /\ log' = Logged(v, << <<"DynamicExpand", VertexCtx(v), "ok">> >>
                        \o RunDeferred(v, "error"))
    /\ pc' = [pc EXCEPT ![v] = "done"]
    /\ UNCHANGED <<edges, excluded, targets, filter, phase, visits>>
    /\ UNCHANGED <<overrides, walkCtx, tracing, rg, lb>>

\* walkFn, lines 245-296: DynamicExpand returns a valid sub-graph, the
\* sub-graph of an excluded vertex is excluded, and the recursive walk is
\* called
DynamicExpand(v) ==
    /\ pc[v] = "executed"
    /\ GraphNodeDynamicExpandable(v)
    /\ \E g \in Expansions, tgts \in UpTo(MaxDirect) :
         /\ ValidSubGraph(g)
         /\ dyn' = g
         /\ filter' = InheritExcluded(filter, v, g)
         /\ targets' = [targets EXCEPT !["sub"] = DirectTargets(v, tgts)]
         /\ log' = Logged(v, << <<"DynamicExpand", VertexCtx(v), "ok">> >>
                             \o (IF GraphNodeTargetable(v)
                                 THEN << <<"Targets", tgts>> >> ELSE <<>>)
                             \o << <<"walk">> >>)
    /\ walkCtx' = [walkCtx EXCEPT !["sub"] = SubWalkCtx(v)]
    /\ phase' = [phase EXCEPT !["sub"] = "called"]
    /\ pc' = [pc EXCEPT ![v] = CallWalk]
    /\ UNCHANGED <<edges, excluded, visits, diags>>
    /\ UNCHANGED <<overrides, tracing, rg, lb>>

\* AcyclicGraph.Walk returns once every vertex is done (line 314); the
\* return of the recursive call resumes its caller, which appends the
\* diagnostics and returns (lines 296-311)
WalkReturn(w) ==
    /\ phase[w] = "walking"
    /\ \A v \in WalkedVertices(w) : pc[v] = "done"
    /\ phase' = [phase EXCEPT ![w] = "returned"]
    /\ IF w = "sub"
       THEN /\ pc' = [pc EXCEPT ![Caller] = "done"]
            /\ diags' = [diags EXCEPT ![WalkOf(Caller)] = AppendDiags(@, diags["sub"])]
            /\ log' = Logged(Caller, << <<"walk returned">> >>
                                     \o RunDeferred(Caller, Outcome(diags["sub"])))
       ELSE UNCHANGED <<pc, diags, log>>
    /\ UNCHANGED <<edges, dyn, excluded, targets, filter, visits>>
    /\ UNCHANGED <<overrides, walkCtx, tracing, rg, lb>>

\* walker.Execute or DynamicExpand panics: the deferred calls run, the
\* panic is logged and raised again (lines 135-142); the visit never
\* returns
Panic(v) ==
    /\ \/ pc[v] = "visit" /\ GraphNodeExecutable(v)
       \/ pc[v] = "executed"
    /\ pc' = [pc EXCEPT ![v] = "panicked"]
    /\ log' = Logged(v, RunDeferred(v, "panic"))
    /\ UNCHANGED <<edges, dyn, excluded, targets, filter, phase, visits, diags>>
    /\ UNCHANGED <<overrides, walkCtx, tracing, rg, lb>>

\* the walks in which no action panics, the host has no overrides and
\* every sub-graph is valid
Next ==
    \/ \E w \in Walks : WalkExclude(w)
    \/ \E w \in Walks : WalkTarget(w)
    \/ \E w \in Walks : \E v \in V : VisitStart(w, v)
    \/ \E v \in V : Execute(v)
    \/ \E v \in V : ExpandNothing(v)
    \/ \E v \in V : DynamicExpand(v)
    \/ \E w \in Walks : WalkReturn(w)

Spec == Init /\ [][Next]_vars

\* The walks checked for progress: those with at most MaxLiveTargets
\* top-level targets, and with targets or excluded addresses, not both.
LiveInit ==
    /\ Init
    /\ Cardinality(targets["top"]) <= MaxLiveTargets
    /\ targets["top"] = {} \/ excluded = {}

\* fair scheduling of the walk's tasks: a step that stays possible is taken
FairSpec == LiveInit /\ [][Next]_vars /\ WF_vars(Next)

\* The visits observed call by call: the top-level graphs in which the
\* resources depend on the provider, any overrides, no top-level targets.
VisitDags == { {<<"a", "c">>, <<"b", "c">>}, {<<"b", "a">>, <<"a", "c">>} }

VisitInit ==
    /\ edges \in VisitDags
    /\ dyn = NilGraph
    /\ excluded \in UpTo(MaxExcluded)
    /\ targets = [w \in Walks |-> {}]
    /\ filter = [v \in V |-> Unset]
    /\ phase = [w \in Walks |-> IF w = "top" THEN "called" ELSE "none"]
    /\ pc = [v \in V |-> "wait"]
    /\ visits = [v \in V |-> 0]
    /\ diags = [w \in Walks |-> FALSE]
    /\ overrides \in OverrideSets
    /\ walkCtx = [w \in Walks |-> IF w = "top" THEN EvalContext ELSE NoCtx]
    /\ tracing = TRUE
    /\ log = [v \in V |-> <<>>]
    /\ rg = RGIdle
    /\ lb = LBIdle

\* the visits in which nothing panics
NoPanicNext ==
    \/ Next
    \/ \E w \in Walks : \E v \in V : SkipProvider(w, v)
    \/ \E v \in V : ExpandInvalid(v)

VisitNext ==
    \/ NoPanicNext
    \/ \E v \in V : Panic(v)

VisitSpec == VisitInit /\ [][VisitNext]_vars

\* fair scheduling of the walk's tasks, in the walks in which nothing panics
FairVisitSpec == VisitInit /\ [][NoPanicNext]_vars /\ WF_vars(NoPanicNext)

\* ---------------------------------------------------------- ResourceGraph
\* no walk is called
IdleWalk ==
    /\ edges = {}
    /\ dyn = NilGraph
    /\ excluded = {}
    /\ targets = [w \in Walks |-> {}]
    /\ filter = [v \in V |-> Unset]
    /\ phase = [w \in Walks |-> "none"]
    /\ pc = [v \in V |-> "wait"]
    /\ visits = [v \in V |-> 0]
    /\ diags = [w \in Walks |-> FALSE]
    /\ overrides = NoOverrides
    /\ walkCtx = [w \in Walks |-> NoCtx]
    /\ tracing = FALSE
    /\ log = [v \in V |-> <<>>]

\* the vertices of the graphs ResourceGraph is called on: a, b and x1 have
\* a config-resource address (a and x1 the same one), c and root have none
RGVerts == {"a", "b", "x1", "c", "root"}
\* line 336: n.(GraphNodeConfigResource)
GraphNodeConfigResource(n) == ResourceAddr(n) # None

\* the acyclic graphs over RGVerts with at most MaxRGEdges edges
RGGraphs ==
    {[verts |-> RGVerts, edges |-> e] :
        e \in {x \in SUBSET {p \in RGVerts \X RGVerts : p[1] # p[2]} :
                 /\ Cardinality(x) <= MaxRGEdges
                 /\ Acyclic([verts |-> RGVerts, edges |-> x])}}

\* dag.Graph.Subsume: the vertices and the edges of other are added
Subsume(g, other) ==
    [verts |-> g.verts \cup other.verts, edges |-> g.edges \cup other.edges]

\* dag.Graph.Remove: the vertex goes, and every edge from or to it
Remove(g, n) ==
    [verts |-> g.verts \ {n},
     edges |-> {e \in g.edges : e[1] # n /\ e[2] # n}]

\* dag.AcyclicGraph.TransitiveReduction: every edge (u, w) for which there is
\* a path from u to w of two edges or more is removed
TransitiveReduction(g) ==
    [verts |-> g.verts,
     edges |-> {e \in g.edges :
                  ~\E m \in DownEdges(g, e[1]) \ {e[2]} : e[2] \in Ancestors(g, m)}]

\* mutant: the vertex is removed and nothing is connected
ReduceNode_RemoveOnly(g, n) == Remove(g, n)

\* reducePreservingRelationships, lines 379-387: every dependent of n is
\* connected to every dependency of n, then n is removed
ReduceNode(g, n) ==
    Remove([verts |-> g.verts,
            edges |-> g.edges \cup (UpEdges(g, n) \X DownEdges(g, n))], n)

\* lines 348-358: the graph of the addresses of the vertices of g
AddrGraph(g) ==
    [nodes |-> {ResourceAddr(n) : n \in g.verts},
     edges |-> {<<ResourceAddr(e[1]), ResourceAddr(e[2])>> : e \in g.edges}]

NoAddrGraph == [nodes |-> {}, edges |-> {}]

RGInit ==
    /\ IdleWalk
    /\ \E g \in RGGraphs :
         rg = [pc |-> "called", g |-> g, tmp |-> NilGraph, todo |-> {},
               ret |-> NoAddrGraph]
    /\ lb = LBIdle

\* ResourceGraph, lines 332-333, and the g.Vertices() of line 368
RGSubsume ==
    /\ rg.pc = "called"
    /\ rg' = [rg EXCEPT !.pc = "reducing",
                        !.tmp = Subsume(NilGraph, rg.g),
                        !.todo = Subsume(NilGraph, rg.g).verts]
    /\ UNCHANGED <<walkVars, lb>>

\* reducePreservingRelationships: one turn of the loop of lines 368-388, on
\* any vertex not yet looked at
RGReduceStep ==
    /\ rg.pc = "reducing"
    /\ \E n \in rg.todo :
         rg' = [rg EXCEPT !.todo = @ \ {n},
                          !.tmp = IF GraphNodeConfigResource(n) THEN @
                                  ELSE ReduceNode(@, n)]
    /\ UNCHANGED <<walkVars, lb>>

\* ResourceGraph, line 345
RGTransitiveReduction ==
    /\ rg.pc = "reducing"
    /\ rg.todo = {}
    /\ rg' = [rg EXCEPT !.pc = "reduced", !.tmp = TransitiveReduction(@)]
    /\ UNCHANGED <<walkVars, lb>>

\* ResourceGraph, lines 348-360
RGReturn ==
    /\ rg.pc = "reduced"
    /\ rg' = [rg EXCEPT !.pc = "returned", !.ret = AddrGraph(rg.tmp)]
    /\ UNCHANGED <<walkVars, lb>>

RGNext == RGSubsume \/ RGReduceStep \/ RGTransitiveReduction \/ RGReturn

RGSpec == RGInit /\ [][RGNext]_vars

\* ---------------------------------------------------------- local backend
\* a nil backend.Backend, and the backends of the test: testDelegateBackend
\* with its three flags
NilBackend == [nil |-> TRUE]
Delegates ==
    [nil : {FALSE}, stateErr : BOOLEAN, statesErr : BOOLEAN, deleteErr : BOOLEAN]
Nil == "nil"
\* MissingStateStorageDiag.Error()
MissingStateStorage == "Missing state store"
WorkspaceNames == {"default", "test"}

\* testDelegateBackend.StateMgr, Workspaces, DeleteWorkspace
DelegateStateMgr(d, name) ==
    IF d.stateErr THEN [val |-> Nil, err |-> "errTestDelegateState"]
    ELSE [val |-> "Filesystem(terraform.tfstate)", err |-> Nil]
DelegateWorkspaces(d) ==
    IF d.statesErr THEN [val |-> Nil, err |-> "errTestDelegateStates"]
    ELSE [val |-> "[default]", err |-> Nil]
DelegateDeleteWorkspace(d, name, force) ==
    IF d.deleteErr THEN [err |-> "errTestDelegateDeleteState"] ELSE [err |-> Nil]

\* NewWithBackend: the Local and the error it returns
NewWithBackend(backend) ==
    IF backend = NilBackend
    THEN [local |-> Nil, err |-> "nil backend.Backend pointer received"]
    ELSE [local |-> [Backend |-> backend], err |-> Nil]

\* Each method of Local gives what it returns (ret) and the calls it makes
\* on the wrapped backend (calls).
Workspaces(b) ==
    IF b.Backend = NilBackend
    THEN [ret |-> [val |-> Nil, err |-> MissingStateStorage], calls |-> <<>>]
    ELSE [ret |-> DelegateWorkspaces(b.Backend),
          calls |-> << [method |-> "Workspaces", args |-> <<>>] >>]

\* mutant: the workspace is deleted locally and no error is returned
DeleteWorkspace_Local(b, name, force) == [ret |-> [err |-> Nil], calls |-> <<>>]

DeleteWorkspace(b, name, force) ==
    IF b.Backend = NilBackend
    THEN [ret |-> [err |-> MissingStateStorage], calls |-> <<>>]
    ELSE [ret |-> DelegateDeleteWorkspace(b.Backend, name, force),
          calls |-> << [method |-> "DeleteWorkspace", args |-> <<name, force>>] >>]

StateMgr(b, name) ==
    IF b.Backend = NilBackend
    THEN [ret |-> [val |-> Nil, err |-> MissingStateStorage], calls |-> <<>>]
    ELSE [ret |-> DelegateStateMgr(b.Backend, name),
          calls |-> << [method |-> "StateMgr", args |-> <<name>>] >>]

\* lb: pc is where the caller is, arg the backend it passed to
\* NewWithBackend, local the Local it holds (Nil when it holds none), err the
\* error of NewWithBackend, rets what the calls on the Local returned, calls
\* the calls made on the wrapped backend
LBInit ==
    /\ IdleWalk
    /\ rg = RGIdle
    /\ lb = [pc |-> "start", arg |-> NilBackend, local |-> Nil, err |-> Nil,
             rets |-> <<>>, calls |-> <<>>]

\* the caller builds a Local with NewWithBackend, from a backend or from nil
LBNewWithBackend ==
    /\ lb.pc = "start"
    /\ \E backend \in Delegates \cup {NilBackend} :
         lb' = [lb EXCEPT !.arg = backend,
                          !.local = NewWithBackend(backend).local,
                          !.err = NewWithBackend(backend).err,
                          !.pc = IF NewWithBackend(backend).err = Nil
                                 THEN "ready" ELSE "failed"]
    /\ UNCHANGED <<walkVars, rg>>

\* the caller builds the Local as a struct value, its Backend field nil
LBZeroValue ==
    /\ lb.pc = "start"
    /\ lb' = [lb EXCEPT !.local = [Backend |-> NilBackend], !.pc = "ready"]
    /\ UNCHANGED <<walkVars, rg>>

LBReturn(method, args, r) ==
    lb' = [lb EXCEPT !.rets = Append(@, [method |-> method, args |-> args, ret |-> r.ret]),
                     !.calls = @ \o r.calls]

LBStateMgr ==
    /\ lb.pc = "ready"
    /\ Len(lb.rets) < MaxCalls
    /\ \E name \in WorkspaceNames :
         LBReturn("StateMgr", <<name>>, StateMgr(lb.local, name))
    /\ UNCHANGED <<walkVars, rg>>

LBWorkspaces ==
    /\ lb.pc = "ready"
    /\ Len(lb.rets) < MaxCalls
    /\ LBReturn("Workspaces", <<>>, Workspaces(lb.local))
    /\ UNCHANGED <<walkVars, rg>>

LBDeleteWorkspace ==
    /\ lb.pc = "ready"
    /\ Len(lb.rets) < MaxCalls
    /\ \E name \in WorkspaceNames, force \in BOOLEAN :
         LBReturn("DeleteWorkspace", <<name, force>>,
                  DeleteWorkspace(lb.local, name, force))
    /\ UNCHANGED <<walkVars, rg>>

LBNext ==
    \/ LBNewWithBackend
    \/ LBZeroValue
    \/ LBStateMgr
    \/ LBWorkspaces
    \/ LBDeleteWorkspace

LBSpec == LBInit /\ [][LBNext]_vars

\* ------------------------------------------------- Local.Operation, opWait
\* the goroutines that call Operation on one Local
Callers == {"c1", "c2"}
OperationTypeRefresh == "OperationTypeRefresh"
OperationTypePlan == "OperationTypePlan"
OperationTypeApply == "OperationTypeApply"
OperationTypeInvalid == "OperationTypeInvalid"
OperationTypes ==
    {OperationTypeRefresh, OperationTypePlan, OperationTypeApply,
     OperationTypeInvalid}
\* the Operation arguments: the type, and whether op.View is set
Operations == [Type : OperationTypes, View : BOOLEAN]

\* mutant: an unsupported type runs the refresh
OperationFn_Default(type) ==
    CASE type = OperationTypePlan -> "opPlan"
      [] type = OperationTypeApply -> "opApply"
      [] OTHER -> "opRefresh"

\* Operation, lines 177-191: the operation function for the type, Nil for
\* the default case, which returns the error
OperationFn(type) ==
    CASE type = OperationTypeRefresh -> "opRefresh"
      [] type = OperationTypePlan -> "opPlan"
      [] type = OperationTypeApply -> "opApply"
      [] OTHER -> Nil

\* mutant: the lock is the last deferred call to run
Defers_UnlockLast ==
    <<"b.opLock.Unlock", "logging.PanicHandler", "done", "stop", "cancel">>

\* Operation, lines 216-221: the deferred calls of the operation goroutine
\* in the order of their defer statements; they run last to first
Defers == <<"logging.PanicHandler", "done", "stop", "cancel", "b.opLock.Unlock">>

\* mutant: every case of the select sets canceled
Canceled_Always(case) == TRUE

\* opWait, lines 264-275: canceled is set in the cancelCtx cases only
Canceled(case) == case = "cancelCtx"

\* opWait, lines 240-241, 263-264, 268, 271, 276: the cases of a select
\* that can proceed; the second select has no stopCtx case
ReadyCases(b, c, second) ==
    {k \in {"stopCtx", "cancelCtx", "doneCh"} :
        /\ k = "stopCtx" => ~second /\ b.stopCtx[c]
        /\ k = "cancelCtx" => b.cancelCtx[c]
        /\ k = "doneCh" => b.doneCh[c]}

\* mutant: Lock never waits
Lockable_Always(b) == TRUE

\* Operation, line 194: Lock returns once no operation holds opLock
Lockable(b) == b.opLock = Nil

\* the positions of an operation goroutine inside opWait
InOpWait == {"select", "Stopping", "PersistState", "Stop", "select2", "return"}
\* the positions at which the operation function f is running
InF == {"f"} \cup InOpWait

\* a Local on which no Operation was called yet, with the arguments of the
\* calls to come
OpInit ==
    /\ IdleWalk
    /\ rg = RGIdle
    /\ \E ops \in [Callers -> Operations] :
         lb = [pc |-> "operations",
               opLock |-> Nil,
               op |-> ops,
               call |-> [c \in Callers |-> "idle"],
               go |-> [c \in Callers |-> "none"],
               outcome |-> [c \in Callers |-> "none"],
               left |-> [c \in Callers |-> 0],
               runningCtx |-> [c \in Callers |-> FALSE],
               stopCtx |-> [c \in Callers |-> FALSE],
               cancelCtx |-> [c \in Callers |-> FALSE],
               doneCh |-> [c \in Callers |-> FALSE],
               canceled |-> [c \in Callers |-> FALSE],
               cases |-> [c \in Callers |-> <<>>],
               view |-> [c \in Callers |-> <<>>],
               persistErr |-> [c \in Callers |-> FALSE],
               tfStop |-> [c \in Callers |-> "none"]]

\* Operation, lines 172-174: a nil View panics in the caller
OperationNilView(c) ==
    /\ lb.call[c] = "idle"
    /\ ~lb.op[c].View
    /\ lb' = [lb EXCEPT !.call[c] = "panic"]
    /\ UNCHANGED <<walkVars, rg>>

\* Operation, lines 177-191: the switch on the type
Operation(c) ==
    /\ lb.call[c] = "idle"
    /\ lb.op[c].View
    /\ lb' = [lb EXCEPT !.call[c] = IF OperationFn(lb.op[c].Type) = Nil
                                    THEN "error" ELSE "Lock"]
    /\ UNCHANGED <<walkVars, rg>>

\* Operation, lines 194-226: the caller gets the lock, builds the contexts
\* and the RunningOperation, starts the goroutine and returns
OperationLocked(c) ==
    /\ lb.call[c] = "Lock"
    /\ Lockable(lb)
    /\ lb' = [lb EXCEPT !.opLock = c, !.call[c] = "returned", !.go[c] = "f"]
    /\ UNCHANGED <<walkVars, rg>>

\* the holder of the RunningOperation calls its Stop (line 205)
Stop(c) ==
    /\ lb.call[c] = "returned"
    /\ ~lb.stopCtx[c]
    /\ lb' = [lb EXCEPT !.stopCtx[c] = TRUE]
    /\ UNCHANGED <<walkVars, rg>>

\* the holder of the RunningOperation calls its Cancel (line 210)
Cancel(c) ==
    /\ lb.call[c] = "returned"
    /\ ~lb.cancelCtx[c]
    /\ lb' = [lb EXCEPT !.cancelCtx[c] = TRUE]
    /\ UNCHANGED <<walkVars, rg>>

\* line 222: the operation function starts the Terraform operation and
\* calls opWait on its done channel and the two contexts
FOpWait(c) ==
    /\ lb.go[c] = "f"
    /\ lb.cases[c] = <<>>
    /\ lb' = [lb EXCEPT !.go[c] = "select"]
    /\ UNCHANGED <<walkVars, rg>>

\* the Terraform operation ends: doneCh fires
DoneCh(c) ==
    /\ lb.go[c] \in InOpWait \ {"return"}
    /\ ~lb.doneCh[c]
    /\ lb' = [lb EXCEPT !.doneCh[c] = TRUE]
    /\ UNCHANGED <<walkVars, rg>>

\* opWait, lines 240-241, 271-276: the first select takes a ready case
OpWaitSelect(c) ==
    /\ lb.go[c] = "select"
    /\ \E case \in ReadyCases(lb, c, FALSE) :
         lb' = [lb EXCEPT !.cases[c] = Append(@, case),
                          !.canceled[c] = Canceled(case),
                          !.go[c] = IF case = "stopCtx" THEN "Stopping"
                                    ELSE "return"]
    /\ UNCHANGED <<walkVars, rg>>

\* opWait, line 242
OpWaitStopping(c) ==
    /\ lb.go[c] = "Stopping"
    /\ lb' = [lb EXCEPT !.view[c] = Append(@, "view.Stopping"),
                        !.go[c] = "PersistState"]
    /\ UNCHANGED <<walkVars, rg>>

\* opWait, lines 246-257: PersistState, and its error shown by the view
OpWaitPersistState(c) ==
    /\ lb.go[c] = "PersistState"
    /\ \E err \in BOOLEAN :
         lb' = [lb EXCEPT !.view[c] =
                              @ \o <<"opStateMgr.PersistState">>
                                \o (IF err THEN <<"view.Diagnostics">> ELSE <<>>),
                          !.persistErr[c] = err,
                          !.go[c] = "Stop"]
    /\ UNCHANGED <<walkVars, rg>>

\* opWait, line 261: Stop is started in a goroutine of its own
OpWaitStop(c) ==
    /\ lb.go[c] = "Stop"
    /\ lb' = [lb EXCEPT !.view[c] = Append(@, "go tfCtx.Stop"),
                        !.tfStop[c] = "started",
                        !.go[c] = "select2"]
    /\ UNCHANGED <<walkVars, rg>>

\* the goroutine of line 261 runs tfCtx.Stop
TfStop(c) ==
    /\ lb.tfStop[c] = "started"
    /\ lb' = [lb EXCEPT !.tfStop[c] = "stopped"]
    /\ UNCHANGED <<walkVars, rg>>

\* opWait, lines 263-269: the second select
OpWaitSelect2(c) ==
    /\ lb.go[c] = "select2"
    /\ \E case \in ReadyCases(lb, c, TRUE) :
         lb' = [lb EXCEPT !.cases[c] = Append(@, case),
                          !.canceled[c] = Canceled(case),
                          !.go[c] = "return"]
    /\ UNCHANGED <<walkVars, rg>>

\* line 222: the operation function returns, directly or after opWait
FReturn(c) ==
    /\ lb.go[c] \in {"f", "return"}
    /\ lb' = [lb EXCEPT !.go[c] = "defer", !.outcome[c] = "return",
                        !.left[c] = Len(Defers)]
    /\ UNCHANGED <<walkVars, rg>>

\* line 222: the operation function panics
FPanic(c) ==
    /\ lb.go[c] \in {"f", "return"}
    /\ lb' = [lb EXCEPT !.go[c] = "defer", !.outcome[c] = "panic",
                        !.left[c] = Len(Defers)]
    /\ UNCHANGED <<walkVars, rg>>

\* lines 216-221: the next deferred call runs
Deferred(c) ==
    /\ lb.go[c] = "defer"
    /\ LET d == Defers[lb.left[c]]
           b1 == [lb EXCEPT !.left[c] = @ - 1,
                            !.go[c] = IF lb.left[c] = 1 THEN "end" ELSE "defer"]
       IN lb' = CASE d = "b.opLock.Unlock" -> [b1 EXCEPT !.opLock = Nil]
                  [] d = "cancel" -> [b1 EXCEPT !.cancelCtx[c] = TRUE]
                  [] d = "stop" -> [b1 EXCEPT !.stopCtx[c] = TRUE]
                  [] d = "done" -> [b1 EXCEPT !.runningCtx[c] = TRUE]
                  [] OTHER -> b1
    /\ UNCHANGED <<walkVars, rg>>

OpNext ==
    \E c \in Callers :
        \/ OperationNilView(c)
        \/ Operation(c)
        \/ OperationLocked(c)
        \/ Stop(c)
        \/ Cancel(c)
        \/ FOpWait(c)
        \/ DoneCh(c)
        \/ OpWaitSelect(c)
        \/ OpWaitStopping(c)
        \/ OpWaitPersistState(c)
        \/ OpWaitStop(c)
        \/ TfStop(c)
        \/ OpWaitSelect2(c)
        \/ FReturn(c)
        \/ FPanic(c)
        \/ Deferred(c)

OpSpec == OpInit /\ [][OpNext]_vars

\* liveness is checked for a plan by c1 and, by c2, an apply or a call with
\* an unsupported type, with or without a View
FairOpInit ==
    /\ OpInit
    /\ lb.op["c1"] = [Type |-> OperationTypePlan, View |-> TRUE]
    /\ lb.op["c2"].Type \in {OperationTypeApply, OperationTypeInvalid}

\* the scheduler runs a goroutine that can take a step: the deferred calls
\* never wait, and Lock returns when the lock stays free. Nothing makes the
\* operation function itself return.
OpFairness ==
    \A c \in Callers :
        WF_vars(Deferred(c)) /\ WF_vars(OperationLocked(c))

FairOpSpec == FairOpInit /\ [][OpNext]_vars /\ OpFairness

\* ----------------------------------------------------------------- claims
Filtered(w) == phase[w] \in {"walking", "returned"}
Started(w) == phase[w] # "none"
\* walk w has filtered and none of its vertices has started
JustFiltered(w) == phase[w] = "walking" /\ \A v \in G(w).verts : pc[v] = "wait"

\* C1: in every walk (top-level or sub-walk), for every edge (u, v) with u
\* depending on v, u is RUNNING or DONE only when v is DONE.
C1_Ordering ==
    \A w \in Walks : \A e \in G(w).edges :
        Status(e[1]) \in {RUNNING, DONE} => Status(e[2]) = DONE

\* a dependent is running in the top-level walk and one in the sub-walk
C1_Witness ==
    /\ \E e \in edges : Status(e[1]) = RUNNING
    /\ \E e \in dyn.edges : e[1] # "root" /\ Status(e[1]) = RUNNING

\* C2: in a top-level walk with no targets and no excluded addresses, every
\* vertex of the graph is labelled Allowed by the filtering, is never
\* visited twice, and has been visited exactly once when the walk returns.
C2_Completeness ==
    (targets["top"] = {} /\ excluded = {}) =>
        /\ Filtered("top") => \A v \in Outer : filter[v] = AllowedL
        /\ \A v \in Outer : visits[v] <= 1
        /\ \A v \in Outer : Status(v) # WAITING => visits[v] = 1
        /\ phase["top"] = "returned" => \A v \in Outer : visits[v] = 1

C2_Witness ==
    /\ targets["top"] = {} /\ excluded = {}
    /\ phase["top"] = "returned"
    /\ edges # {}
    /\ phase["sub"] = "returned"

\* the filter before the passes of walk w: empty for the top-level walk; for
\* the sub-walk, what the expanding vertex left
PreFilter(w) ==
    IF w = "top" THEN [v \in V |-> Unset]
    ELSE InheritExcluded([v \in V |-> IF v \in dyn.verts THEN Unset ELSE filter[v]],
                         Caller, dyn)

\* the vertices executed (labelled Allowed) when walk w is given targets T
ExecutedUnder(w, T) ==
    {v \in G(w).verts :
        TargetPass(G(w), ExcludePass(G(w), PreFilter(w), excluded), T)[v] = AllowedL}
Executed(w) == {v \in G(w).verts : filter[v] = AllowedL}

\* C3 as stated: for all targets T1 that are a subset of the targets T2 of
\* the walk, the vertices executed under T1 are among those executed under T2.
C3_Original ==
    \A w \in Walks : JustFiltered(w) =>
        \A T1 \in SUBSET targets[w] : ExecutedUnder(w, T1) \subseteq Executed(w)

\* C3 amended: for all non-empty targets T1 that are a subset of the targets
\* T2 of the walk, the vertices executed under T1 are among those executed
\* under T2.
C3_Monotonic ==
    \A w \in Walks : JustFiltered(w) =>
        \A T1 \in SUBSET targets[w] :
            T1 # {} => ExecutedUnder(w, T1) \subseteq Executed(w)

\* a strictly smaller non-empty target set executes strictly fewer vertices
C3_Witness ==
    /\ JustFiltered("top")
    /\ \E T1 \in SUBSET targets["top"] :
         /\ T1 # {} /\ T1 # targets["top"]
         /\ ExecutedUnder("top", T1) # {}
         /\ ExecutedUnder("top", T1) # Executed("top")

\* C4: after the filtering of a walk with excluded addresses, if v is
\* ExplicitlyExcluded and u depends on v directly or transitively, then u is
\* ExplicitlyExcluded.
C4_DownwardClosure ==
    \A w \in Walks : (Filtered(w) /\ excluded # {}) =>
        \A u \in G(w).verts : \A v \in Ancestors(G(w), u) :
            filter[v] = ExplicitlyExcluded => filter[u] = ExplicitlyExcluded

\* a vertex no excluded address contains is excluded for its dependency
C4_Witness ==
    /\ Filtered("top") /\ excluded # {} /\ targets["top"] = {}
    /\ \E u \in Outer : \E v \in Ancestors(G("top"), u) :
         /\ filter[v] = ExplicitlyExcluded
         /\ ~nodeIsTarget(u, excluded)
         /\ filter[u] = ExplicitlyExcluded

\* the chain u -> m -> l walked with the address of m excluded and no targets
Chain(u, m, l) ==
    /\ Filtered("top")
    /\ targets["top"] = {}
    /\ getTargetable(m) # None
    /\ excluded = {getTargetable(m)}
    /\ {u, m, l} = Outer
    /\ edges = {<<u, m>>, <<m, l>>}

\* C5 as stated: in the chain A -> B -> C with B excluded, A, B and C are all
\* ExplicitlyExcluded after the filtering.
C5_Original ==
    \A u, m, l \in Outer : Chain(u, m, l) =>
        \A v \in Outer : filter[v] = ExplicitlyExcluded

\* C5 amended: in the chain A -> B -> C with B excluded, A and B are
\* ExplicitlyExcluded after the filtering and C, the dependency of B, is
\* Allowed.
C5_Cascade ==
    \A u, m, l \in Outer : Chain(u, m, l) =>
        /\ filter[u] = ExplicitlyExcluded
        /\ filter[m] = ExplicitlyExcluded
        /\ filter[l] = AllowedL

C5_Witness == \E u, m, l \in Outer : Chain(u, m, l) /\ phase["top"] = "returned"

\* v's address is contained by a target of T, or v is a transitive dependency
\* of such a vertex of g
Selected(g, v, T) ==
    \E t \in g.verts : nodeIsTarget(t, T) /\ (v = t \/ v \in Ancestors(g, t))

\* C6: with targets and no excluded addresses, after the filtering a vertex
\* is Allowed iff a target contains its address or it is a transitive
\* dependency of such a vertex, and every other vertex is ExplicitlyExcluded.
C6_Targeting ==
    \A w \in Walks :
        (Filtered(w) /\ targets[w] # {} /\ excluded = {}
            /\ (w = "sub" => filter[Caller] = AllowedL)) =>
        LET sel == {v \in G(w).verts : Selected(G(w), v, targets[w])}
        IN \A v \in G(w).verts :
               /\ filter[v] = AllowedL <=> v \in sel
               /\ v \notin sel => filter[v] = ExplicitlyExcluded

\* two unrelated resources a and b on the provider c, a targeted
C6_Witness ==
    /\ edges = {<<"a", "c">>, <<"b", "c">>}
    /\ targets["top"] = {"r1"} /\ excluded = {}
    /\ Filtered("top")
    /\ Executed("top") = {"a", "c"}
    /\ filter["b"] = ExplicitlyExcluded

\* C7: a vertex labelled ExplicitlyExcluded is never relabelled; a vertex
\* whose address both an excluded address and a target contain is
\* ExplicitlyExcluded after the filtering; the filtering raises no error.
C7_ExcludeDominates ==
    /\ [][\A v \in V : filter[v] = ExplicitlyExcluded
                          => filter'[v] = ExplicitlyExcluded]_vars
    /\ [](\A w \in Walks : Filtered(w) =>
            \A v \in G(w).verts :
                (nodeIsTarget(v, excluded) /\ nodeIsTarget(v, targets[w]))
                    => filter[v] = ExplicitlyExcluded)
    /\ []((\A v \in V : pc[v] = "wait") => ~diags["top"] /\ ~diags["sub"])

\* a vertex matched by both is excluded, in the top-level walk and in the
\* sub-walk
C7_Witness ==
    /\ Filtered("top") /\ Filtered("sub")
    /\ \E v \in Outer : nodeIsTarget(v, excluded) /\ nodeIsTarget(v, targets["top"])
    /\ \E v \in dyn.verts : filter[v] = ExplicitlyExcluded /\ nodeIsTarget(v, targets["sub"])

\* C8: under fair scheduling every vertex of a walked graph goes from
\* WAITING to RUNNING to DONE and reaches DONE, whatever its filter label.
C8_AllDone ==
    /\ <>(phase["top"] = "returned")
    /\ [](phase["top"] = "returned" =>
            /\ \A v \in Outer : Status(v) = DONE
            /\ Started("sub") => \A v \in SubV : Status(v) = DONE)
    /\ [][\A v \in V : Status(v)' # Status(v) =>
             <<Status(v), Status(v)'>> \in {<<WAITING, RUNNING>>, <<RUNNING, DONE>>}]_vars

\* an excluded vertex is done and a vertex that depends on it has started
C8_Witness ==
    \E e \in edges :
        /\ filter[e[2]] = ExplicitlyExcluded
        /\ Status(e[2]) = DONE
        /\ Status(e[1]) = RUNNING

\* C9: a sub-graph vertex starts only after the expanding vertex's execute
\* has returned, the sub-graph is walked in its dependency order, the
\* sub-walk has returned before the expanding vertex is DONE, and no outer
\* vertex that depends on it starts before every sub-graph vertex is done.
C9_InPlace ==
    /\ \A v \in SubV : Status(v) # WAITING =>
          /\ pc[Caller] \in {"subwalk", "done"}
          /\ visits[Caller] = 1
    /\ \A v \in SubV : Status(v) = RUNNING => pc[Caller] = "subwalk"
    /\ \A e \in dyn.edges : Status(e[1]) # WAITING => Status(e[2]) = DONE
    /\ (Started("sub") /\ Status(Caller) = DONE) =>
          /\ phase["sub"] = "returned"
          /\ \A v \in dyn.verts : Status(v) = DONE
    /\ \A u \in Outer : (<<u, Caller>> \in edges /\ Status(u) # WAITING) =>
          /\ Status(Caller) = DONE
          /\ \A v \in dyn.verts : Status(v) = DONE

\* x1 depends on x2, and an outer vertex that depends on a has started
C9_Witness ==
    /\ Started("sub")
    /\ <<"x1", "x2">> \in dyn.edges
    /\ \E u \in Outer : <<u, Caller>> \in edges /\ Status(u) = RUNNING

\* C10: when the expanding vertex is ExplicitlyExcluded, every vertex of its
\* sub-graph is ExplicitlyExcluded from the call of the sub-walk on, with or
\* without direct targets.
C10_Inheritance ==
    (Started("sub") /\ filter[Caller] = ExplicitlyExcluded) =>
        \A v \in dyn.verts : filter[v] = ExplicitlyExcluded

\* the excluded vertex carries a direct target that contains a sub-graph
\* vertex, and the sub-walk has filtered
C10_Witness ==
    /\ filter[Caller] = ExplicitlyExcluded
    /\ Filtered("sub")
    /\ \E v \in dyn.verts : nodeIsTarget(v, targets["sub"])

LogHas(v, name) == \E i \in DOMAIN log[v] : log[v][i][1] = name
Ended(v) == pc[v] \in {"done", "panicked"}
\* the visit of v returned with an error in its diagnostics
HasError(v) ==
    log[v] # <<>> /\ log[v][Len(log[v])] = <<"visit complete, with errors">>

\* C11: when the sub-graph returned by the dynamic expansion fails the
\* validation (a cycle, more than one root) or its root is not rootNode, the
\* visit of the expanding vertex returns an error diagnostic, no vertex of
\* the sub-graph is ever visited or executed, no sub-walk is started, and
\* the filter holds no label for any vertex of the sub-graph.
C11_InvalidSubGraph ==
    dyn \in InvalidSubGraphs =>
        /\ pc[Caller] = "done" /\ HasError(Caller) /\ diags[WalkOf(Caller)]
        /\ phase["sub"] = "none"
        /\ \A v \in dyn.verts :
              pc[v] = "wait" /\ visits[v] = 0 /\ log[v] = <<>> /\ filter[v] = Unset

\* an excluded vertex returned a sub-graph whose root is not rootNode, and
\* the walk has returned
C11_Witness ==
    /\ dyn \in InvalidSubGraphs
    /\ Validate(dyn) /\ Roots(dyn) # {rootNode}
    /\ filter[Caller] = ExplicitlyExcluded
    /\ phase["top"] = "returned"

\* C12: when walker.Execute returns diagnostics with an error, the visit
\* returns at once with them: DynamicExpand is never called for the vertex,
\* no sub-walk is started by it, and the only calls after Execute are the
\* deferred ones.
C12_ExecuteError ==
    \A v \in V : \A i \in DOMAIN log[v] :
        (log[v][i][1] = "Execute" /\ log[v][i][3] = "error") =>
            /\ pc[v] = "done"
            /\ ~LogHas(v, "DynamicExpand") /\ ~LogHas(v, "walk")
            /\ v = Caller => phase["sub"] = "none" /\ dyn = NilGraph
            /\ SubSeq(log[v], i + 1, Len(log[v])) = RunDeferred(v, "error")
            /\ diags[WalkOf(v)]

\* the execution of the expandable vertex failed, and the walk has returned
C12_Witness ==
    /\ \E i \in DOMAIN log[Caller] :
          log[Caller][i][1] = "Execute" /\ log[Caller][i][3] = "error"
    /\ phase["top"] = "returned"

\* walker.Execute returned an error for v
ExecFailed(v) ==
    \E i \in DOMAIN log[v] : log[v][i][1] = "Execute" /\ log[v][i][3] = "error"

\* C13: an execution error does not stop the rest of the walk. A vertex
\* whose dependencies are all done can start although one of them failed
\* (no propagation); once a vertex has failed the walk still returns, with
\* every vertex visited once and the error in the returned diagnostics.
C13_NoPropagation ==
    /\ [](\A e \in edges :
            (ExecFailed(e[2]) /\ pc[e[1]] = "wait" /\ DepsDone(G("top"), e[1])) =>
                ENABLED (VisitStart("top", e[1]) \/ SkipProvider("top", e[1])))
    /\ (\E v \in Outer : ExecFailed(v)) ~> (phase["top"] = "returned")
    /\ [](phase["top"] = "returned" =>
            /\ \A v \in Outer : visits[v] = 1 /\ pc[v] = "done"
            /\ (\E v \in Outer : ExecFailed(v)) => diags["top"])

\* the walk has returned, a vertex failed and a vertex that depends on it
\* was executed after it
C13_Witness ==
    /\ phase["top"] = "returned"
    /\ \E e \in edges : ExecFailed(e[2]) /\ LogHas(e[1], "Execute")

\* the positions of the calls named name in the log of the visit of v
At(v, name) == {i \in DOMAIN log[v] : log[v][i][1] = name}
Skipped(v) == LogHas(v, "skipping provider")

\* C14: scope enter and exit are balanced in every visit. A visit enters at
\* most one scope: the custom scope of the vertex, else the scope of its
\* module instance, else the scope of its partially expanded module, else
\* none. No scope is left before the visit ends; once the visit has ended
\* (return or panic) the scope it entered has been left exactly once, after
\* the enter; no scope is left that was not entered.
C14_ScopeBalance ==
    \A v \in V :
        /\ Cardinality(At(v, "enterScope")) <= 1
        /\ (LogHas(v, "starting visit") /\ ~Skipped(v)) =>
              /\ graphNodeEvalContextScope(v) =>
                    \E i \in At(v, "enterScope") : log[v][i][2] = Path(v)
              /\ (~graphNodeEvalContextScope(v) /\ GraphNodeModuleInstance(v)) =>
                    \E i \in At(v, "enterScope") : log[v][i][2] = "evalContextModuleInstance"
              /\ (~graphNodeEvalContextScope(v) /\ ~GraphNodeModuleInstance(v)
                     /\ GraphNodePartialExpandedModule(v)) =>
                    \E i \in At(v, "enterScope") :
                        log[v][i][2] = "evalContextPartialExpandedModule"
              /\ (~graphNodeEvalContextScope(v) /\ ~GraphNodeModuleInstance(v)
                     /\ ~GraphNodePartialExpandedModule(v)) =>
                    At(v, "enterScope") = {}
        /\ ~Ended(v) => At(v, "exitScope") = {}
        /\ Ended(v) => Cardinality(At(v, "exitScope")) = Cardinality(At(v, "enterScope"))
        /\ \A j \in At(v, "exitScope") :
              \E i \in At(v, "enterScope") : i < j /\ log[v][i][2] = log[v][j][2]

\* all ways a visit ends have happened to vertices with a scope: b
\* panicked, the expansion of a gave an invalid sub-graph, and both have
\* left the scope they entered
C14_Witness ==
    /\ pc["b"] = "panicked" /\ At("b", "exitScope") # {}
    /\ dyn \in InvalidSubGraphs /\ At("a", "exitScope") # {}

\* C15: when the work of a vertex panics, the walker logs that the vertex
\* panicked and raises the panic again: the visit never returns (the vertex
\* stays panicked, it is never DONE), and neither "visit complete" nor
\* "visit complete, with errors" is logged for it.
C15_Panic ==
    /\ [](\A v \in V :
            /\ pc[v] = "panicked" <=> LogHas(v, "panicked")
            /\ pc[v] = "panicked" =>
                  /\ log[v][Len(log[v])] = <<"panicked">>
                  /\ ~LogHas(v, "visit complete")
                  /\ ~LogHas(v, "visit complete, with errors"))
    /\ [][\A v \in V : pc[v] = "panicked" => pc'[v] = "panicked" /\ log'[v] = log[v]]_vars

\* the expanding vertex panicked after its execution, and a vertex that does
\* not depend on it has completed its visit
C15_Witness ==
    /\ pc["a"] = "panicked" /\ LogHas("a", "Execute")
    /\ <<"b", "a">> \notin edges /\ LogHas("b", "visit complete")

\* C16: a provider vertex is skipped exactly when the host has overrides and
\* the module of the provider, in its unkeyed-instance form, is overridden. A
\* skipped visit returns no diagnostics, enters no scope, sends no exclusion
\* signal, calls neither Execute nor DynamicExpand, and the vertex is DONE.
\* When the host has no overrides no vertex is skipped.
C16_ProviderSkip ==
    /\ \A v \in V : LogHas(v, "starting visit") =>
          (Skipped(v) <=>
             /\ GraphNodeProvider(v)
             /\ overrides # NoOverrides
             /\ <<[name |-> "m", key |-> NoKey]>> \in overrides.modules)
    /\ \A v \in V : Skipped(v) =>
          /\ log[v] = << <<"starting visit">>, <<"skipping provider">>, <<"visit complete">> >>
          /\ Status(v) = DONE
          /\ visits[v] = 1
    /\ overrides = NoOverrides => \A v \in V : ~Skipped(v)

\* the provider was skipped, the walk has returned without an error and a
\* vertex that depends on the provider was executed
C16_Witness ==
    /\ Skipped("c")
    /\ phase["top"] = "returned" /\ ~diags["top"]
    /\ \E e \in edges : e[2] = "c" /\ LogHas(e[1], "Execute")

\* C17: for every visited vertex with a SetExcluded method (a skipped
\* provider aside), SetExcluded(true) is called, once and before Execute,
\* exactly when the filter does not label the vertex Allowed; a vertex the
\* filter allows is never signalled, no vertex without the method is, and
\* the walker never calls SetExcluded(false).
C17_Reconciliation ==
    \A v \in V :
        /\ (LogHas(v, "starting visit") /\ ~Skipped(v) /\ ExclusionAware(v)) =>
              Cardinality(At(v, "SetExcluded")) = (IF filter[v] = AllowedL THEN 0 ELSE 1)
        /\ filter[v] = AllowedL => At(v, "SetExcluded") = {}
        /\ ~ExclusionAware(v) => At(v, "SetExcluded") = {}
        /\ \A i \in At(v, "SetExcluded") :
              /\ log[v][i][2] = TRUE
              /\ \A j \in At(v, "Execute") : i < j

\* an excluded vertex was signalled and then executed, and an allowed vertex
\* with the method was executed without a signal
C17_Witness ==
    /\ \E v \in Outer : At(v, "SetExcluded") # {} /\ At(v, "Execute") # {}
    /\ \E v \in Outer :
          ExclusionAware(v) /\ filter[v] = AllowedL /\ At(v, "Execute") # {}

\* the vertices of the receiver that have a config-resource address
Kept == {n \in rg.g.verts : GraphNodeConfigResource(n)}
\* the loop of reducePreservingRelationships has ended
RGReduced == rg.pc \in {"reduced", "returned"} \/ (rg.pc = "reducing" /\ rg.todo = {})
\* b is reached from a in the address graph
AddrReach(g, a, b) ==
    b \in Ancestors([verts |-> g.nodes, edges |-> g.edges], a)

\* C18: reducePreservingRelationships keeps exactly the vertices with a
\* config-resource address, and at every turn of its loop, at its end and
\* after the transitive reduction, a vertex that is left reaches another in
\* the reduced graph iff it does in the original graph. The graph
\* ResourceGraph returns has the addresses of the kept vertices as nodes and
\* the edges of the reduced graph between them.
C18_Reduction ==
    /\ rg.pc \in {"reducing", "reduced", "returned"} =>
          /\ Kept \subseteq rg.tmp.verts
          /\ \A a, b \in rg.tmp.verts :
                b \in Ancestors(rg.tmp, a) <=> b \in Ancestors(rg.g, a)
    /\ RGReduced => rg.tmp.verts = Kept
    /\ rg.pc = "reduced" => TransitiveReduction(rg.tmp) = rg.tmp
    /\ rg.pc = "returned" =>
          /\ rg.ret.nodes = {ResourceAddr(n) : n \in Kept}
          /\ \A a, b \in Kept :
                <<a, b>> \in rg.tmp.edges => <<ResourceAddr(a), ResourceAddr(b)>> \in rg.ret.edges
          /\ \A a, b \in Kept :
                b \in Ancestors(rg.g, a) => AddrReach(rg.ret, ResourceAddr(a), ResourceAddr(b))
          /\ \A e \in rg.ret.edges :
                \E a, b \in Kept :
                    /\ e = <<ResourceAddr(a), ResourceAddr(b)>>
                    /\ b \in Ancestors(rg.g, a)

\* ResourceGraph has returned for b -> c -> root -> a, where c and root have
\* no address: the nodes are r2 and r1 and the only edge is r2 -> r1
C18_Witness ==
    /\ rg.pc = "returned"
    /\ rg.g.edges = {<<"b", "c">>, <<"c", "root">>, <<"root", "a">>}
    /\ rg.tmp.edges = {<<"b", "a">>}
    /\ rg.ret = [nodes |-> {"r1", "r2"}, edges |-> {<<"r2", "r1">>}]

\* what the backend d returns for the call c
Expected(d, c) ==
    IF c.method = "StateMgr"
    THEN (IF d.stateErr THEN [val |-> Nil, err |-> "errTestDelegateState"]
          ELSE [val |-> "Filesystem(terraform.tfstate)", err |-> Nil])
    ELSE IF c.method = "Workspaces"
    THEN (IF d.statesErr THEN [val |-> Nil, err |-> "errTestDelegateStates"]
          ELSE [val |-> "[default]", err |-> Nil])
    ELSE (IF d.deleteErr THEN [err |-> "errTestDelegateDeleteState"]
          ELSE [err |-> Nil])

C24_FilterTotal ==
    \A w \in Walks : Filtered(w) =>
        \A v \in G(w).verts : filter[v] \in {AllowedL, ExplicitlyExcluded}

\* the sub-walk has just filtered, with direct targets and with excluded
\* addresses, and its graph holds an allowed and an excluded vertex
C24_Witness ==
    /\ JustFiltered("sub")
    /\ targets["sub"] # {} /\ excluded # {}
    /\ \E v \in dyn.verts : filter[v] = AllowedL
    /\ \E v \in dyn.verts : filter[v] = ExplicitlyExcluded

\* C21: operations on one Local are mutually exclusive. In every
\* interleaving of the Operation calls at most one operation function
\* (refresh, plan or apply) is running, the running one holds opLock, and a
\* second call that waits for the lock cannot go on while the function of
\* the first is running. A call with an unsupported type returns its error:
\* it never holds the lock and never starts an operation.
C21_MutualExclusion ==
    /\ Cardinality({c \in Callers : lb.go[c] \in InF}) <= 1
    /\ \A c \in Callers : lb.go[c] \in InF => lb.opLock = c
    /\ \A c, d \in Callers :
          lb.call[c] = "Lock" /\ lb.go[d] \in InF => ~ENABLED OperationLocked(c)
    /\ \A c \in Callers :
          lb.op[c].Type = OperationTypeInvalid =>
              /\ lb.call[c] \in {"idle", "error", "panic"}
              /\ lb.go[c] = "none"
              /\ lb.opLock # c

\* the function of one operation is running while a second call waits for
\* the lock
C21_Witness ==
    \E c, d \in Callers :
        /\ lb.go[c] \in InF
        /\ lb.call[d] = "Lock"

\* the calls opWait made for c, view.Diagnostics left out
StopCalls(c) == SelectSeq(lb.view[c], LAMBDA x : x # "view.Diagnostics")
StopSteps == <<"view.Stopping", "opStateMgr.PersistState", "go tfCtx.Stop">>
\* opWait has returned for c
Waited(c) == lb.cases[c] # <<>> /\ lb.go[c] \notin InOpWait \ {"return"}

\* C23: opWait returns canceled = true only if the cancel context was done
\* (and its case was taken), and canceled = false when it returns by the
\* done channel. When the first select takes the stop case, view.Stopping,
\* PersistState and the start of tfCtx.Stop happen in that order, once each,
\* all before the second select, which waits for cancel or done only;
\* tfCtx.Stop does not run before it is requested. When the first select
\* takes done or cancel, none of the three is called and opWait returns. A
\* PersistState error is shown with view.Diagnostics right after the call,
\* and opWait still goes on to the second select.
C23_OpWait ==
    \A c \in Callers :
        LET cs == lb.cases[c]
            n == Len(cs)
        IN /\ lb.canceled[c] => lb.cancelCtx[c] /\ n > 0 /\ cs[n] = "cancelCtx"
           /\ Waited(c) /\ cs[n] = "doneCh" => ~lb.canceled[c] /\ lb.doneCh[c]
           /\ Waited(c) /\ cs[n] = "cancelCtx" => lb.canceled[c]
           /\ n > 0 /\ cs[1] = "stopCtx" =>
                 /\ lb.stopCtx[c]
                 /\ StopCalls(c) = SubSeq(StopSteps, 1, Len(StopCalls(c)))
                 /\ lb.go[c] = "select2" \/ n = 2 => StopCalls(c) = StopSteps
                 /\ n = 2 => cs[2] \in {"cancelCtx", "doneCh"}
                 /\ Waited(c) => n = 2
           /\ lb.tfStop[c] # "none" => StopCalls(c) = StopSteps
           /\ n > 0 /\ cs[1] # "stopCtx" =>
                 /\ n = 1
                 /\ lb.view[c] = <<>>
                 /\ lb.tfStop[c] = "none"
                 /\ lb.go[c] \notin InOpWait \ {"return"}
           /\ n = 0 => lb.view[c] = <<>> /\ lb.tfStop[c] = "none"
           /\ lb.persistErr[c] =>
                 /\ Len(lb.view[c]) >= 3
                 /\ lb.view[c][2] = "opStateMgr.PersistState"
                 /\ lb.view[c][3] = "view.Diagnostics"
                 /\ Waited(c) => n = 2 /\ StopCalls(c) = StopSteps
           /\ ~lb.persistErr[c] =>
                 \A i \in 1..Len(lb.view[c]) : lb.view[c][i] # "view.Diagnostics"

\* opWait saw the stop first, PersistState failed, and opWait returned by
\* the done channel with canceled = false
C23_Witness ==
    \E c \in Callers :
        /\ Waited(c)
        /\ lb.cases[c] = <<"stopCtx", "doneCh">>
        /\ lb.persistErr[c]
        /\ ~lb.canceled[c]
        /\ lb.cancelCtx[c]

\* the number of deferred calls of c's goroutine that have run
Ran(c) == IF lb.go[c] \in {"defer", "end"} THEN Len(Defers) - lb.left[c] ELSE 0

\* the deferred calls run in the order unlock, cancel, stop, done: the
\* RunningOperation's Context of c is done only after the three others
Ordered(c) ==
    /\ lb.go[c] \in InF => lb.opLock = c
    /\ Ran(c) >= 1 => lb.opLock # c
    /\ Ran(c) >= 2 => lb.cancelCtx[c]
    /\ Ran(c) >= 3 => lb.stopCtx[c]
    /\ lb.runningCtx[c] <=> Ran(c) >= 4

\* C22 as stated: whenever the Context of an operation is done, the lock
\* is free
C22_Original == \A c \in Callers : lb.runningCtx[c] => lb.opLock = Nil

\* C22: when the operation function has returned or panicked, the
\* goroutine unlocks opLock first, then cancels the cancel and the stop
\* context, and only then is the RunningOperation's Context done, and all
\* of this does happen. When the Context of an operation is done, that
\* operation does not hold the lock any more: the lock is free or held by
\* another operation that took it after the unlock. A call that waits for
\* the lock when every other operation is done gets the lock and returns.
C22_Release ==
    /\ [](\A c \in Callers : Ordered(c))
    /\ \A c \in Callers :
          (lb.go[c] = "defer") ~> (lb.runningCtx[c] /\ lb.opLock # c)
    /\ \A c \in Callers :
          (lb.call[c] = "Lock" /\ \A d \in Callers \ {c} : lb.runningCtx[d])
              ~> (lb.call[c] = "returned")

\* the function of an operation panicked, its Context is done, and the
\* other operation has taken the lock meanwhile
C22_Witness ==
    \E c, d \in Callers :
        /\ lb.outcome[c] = "panic"
        /\ lb.runningCtx[c]
        /\ lb.opLock = d

====
